---- MODULE Spec2Model ----
(***************************************************************************)
(* Match-state engine of the football league application                   *)
(* (football/views.py, football/models.py): score computation from the     *)
(* event log, the on-field tracker, and the add-event / delete-events      *)
(* handlers of match_events_edit, with the match form of match_edit.       *)
(*                                                                         *)
(* Event types are written in ASCII; they stand for the stored values      *)
(*   "goal" = 'гол', "assist" = 'ассист', "own_goal" = 'автогол',          *)
(*   "penalty_goal" = 'пенальти_гол', "yellow" = 'желтая',                 *)
(*   "red" = 'красная', "sub" = 'замена'.                                  *)
(***************************************************************************)
EXTENDS Integers, Sequences, FiniteSets, TLC

VARIABLES
    matches,    \* Match rows: match id -> [home_team, away_team, status]
    lineups,    \* MatchLineup rows: set of [match, team, player, is_starting]
    events,     \* MatchEvent rows: set of [id, match, team, player, event_type, minute, added_time]
    next_id,    \* next value of the MatchEvent id sequence
    request,    \* the POST being answered (its match_id and fields), or NoRequest
    errors,     \* the handler's local list `errors` given to the template
    response,   \* "none" | "redirect" | "render" | "error500"
    players,        \* Player rows: set of player ids
    team_players,   \* TeamPlayer rows: set of [id, team, player, number]
    next_tp_id      \* next value of the TeamPlayer id sequence

vars == <<matches, lineups, events, next_id, request, errors, response,
          players, team_players, next_tp_id>>

----------------------------------------------------------------------------
(* Python values *)

\* Python's None for an optional integer (a NULL column, a failed parse).
None == -999

\* Truthiness of an optional integer id: `if scorer_id and ...`.
Truthy(x) == x # None /\ x # 0

\* `x or 0` on an optional integer.
OrZero(x) == IF x = None THEN 0 ELSE x

\* Lexicographic comparison of Python tuples (m1, a1) >= (m2, a2).
TupleGE(m1, a1, m2, a2) == m1 > m2 \/ (m1 = m2 /\ a1 >= a2)

\* The texts int() accepts, with their values; int() raises ValueError on
\* every other text.
Numeral ==
    ("-1" :> -1) @@ ("0" :> 0) @@ ("1" :> 1) @@ ("2" :> 2) @@ ("3" :> 3) @@
    ("4" :> 4) @@ ("5" :> 5) @@ ("6" :> 6) @@ ("9" :> 9) @@ ("90" :> 90) @@
    ("91" :> 91)

\* A POST field that was not sent: request.POST.get(...) gives None.
Absent == "<absent>"

\* try: int(raw) except (TypeError, ValueError): None
IntOrNone(raw) == IF raw \in DOMAIN Numeral THEN Numeral[raw] ELSE None

\* `not raw` for a POST text: absent or empty.
Falsy(raw) == raw = Absent \/ raw = ""

----------------------------------------------------------------------------
(* Stored rows *)

Teams == {1, 2, 3}              \* Team rows
Players == 1..5                 \* Player rows
MatchIds == {1}                 \* Match rows

\* The MatchLineup rows match 1 was created with (unique per (match,
\* player)): team 1 starts players 1 and 2 with 3 and 4 on the bench, team 2
\* starts player 5.
InitialLineups ==
    { [match |-> 1, team |-> 1, player |-> 1, is_starting |-> TRUE],
      [match |-> 1, team |-> 1, player |-> 2, is_starting |-> TRUE],
      [match |-> 1, team |-> 1, player |-> 3, is_starting |-> FALSE],
      [match |-> 1, team |-> 1, player |-> 4, is_starting |-> FALSE],
      [match |-> 1, team |-> 2, player |-> 5, is_starting |-> TRUE] }

\* MatchLineup.objects.filter(match=match, team=team)
LineupsOf(match, team) ==
    { lu \in lineups : lu.match = match /\ lu.team = team }

\* home_squad_ids / away_squad_ids: {lu.player_id for lu in ..._lineups}
SquadIds(match, team) == { lu.player : lu \in LineupsOf(match, team) }

\* starting = {lu.player_id for lu in lineups if lu.is_starting}
Starting(match, team) ==
    { lu.player : lu \in { l \in LineupsOf(match, team) : l.is_starting } }

ScoringTypes == {"goal", "penalty_goal"}
EventTypes ==
    {"goal", "assist", "own_goal", "penalty_goal", "yellow", "red", "sub"}

----------------------------------------------------------------------------
(* get_match_score *)

\* MatchEvent.objects.filter(match=match).filter(team=team,
\* event_type__in=types).count(), over the stored rows `rows`
CountEvents(rows, match, team, types) ==
    Cardinality({ e \in rows :
        e.match = match /\ e.team = team /\ e.event_type \in types })

\* home_from_own: own goals of the away team. (The variant that filters on
\* match.home_team credits an own goal to the side that conceded it.)
home_from_own_same_team(rows, match) ==
    CountEvents(rows, match, matches[match].home_team, {"own_goal"})
home_from_own(rows, match) ==
    CountEvents(rows, match, matches[match].away_team, {"own_goal"})

\* away_from_own: own goals of the home team
away_from_own(rows, match) ==
    CountEvents(rows, match, matches[match].home_team, {"own_goal"})

\* The score the function returns on the stored rows `rows`.
ScoreOn(rows, match) ==
    LET home_goals_normal ==
            CountEvents(rows, match, matches[match].home_team, ScoringTypes)
        away_goals_normal ==
            CountEvents(rows, match, matches[match].away_team, ScoringTypes)
    IN  << home_goals_normal + home_from_own(rows, match),
           away_goals_normal + away_from_own(rows, match) >>

get_match_score(match) == ScoreOn(events, match)

----------------------------------------------------------------------------
(* _calculate_standings *)

\* Match.STATUS_CHOICES: "scheduled" = 'запланирован', "live" = 'идёт',
\* "finished" = 'завершён'.
Statuses == {"scheduled", "live", "finished"}

\* Match.objects.filter(status=...). (The variants forget the filter, and
\* also yield the matches being played.)
filter_none(status) == DOMAIN matches
filter_started(status) == { m \in DOMAIN matches : matches[m].status # "scheduled" }
filter_status(status) == { m \in DOMAIN matches : matches[m].status = status }

\* Match.objects.filter(status='завершён')
finished_matches == filter_status("finished")

\* The row a team starts with.
EmptyRow(team) ==
    [team |-> team, games |-> 0, wins |-> 0, draws |-> 0, losses |-> 0,
     goals_for |-> 0, goals_against |-> 0, points |-> 0]

\* hs['points'] += 3 for a win, hs['points'] += 1 for a draw. (The variant
\* gives two points for a win.)
PointsForTwoAWin(result) == IF result = "win" THEN 2 ELSE 1
PointsFor(result) == IF result = "win" THEN 3 ELSE 1

\* stats[team][field] += n
Add(stats, team, field, n) ==
    [stats EXCEPT ![team] = [@ EXCEPT ![field] = @ + n]]

\* The body of `for m in finished_matches` for one match: hs and gs are the
\* rows of its home and away team (one and the same row when they are the
\* same team). `rows` are the stored events the score is counted on.
CountMatch(rows, stats, m) ==
    LET score == ScoreOn(rows, m)
        home_goals == score[1]
        away_goals == score[2]
        hs == matches[m].home_team
        gs == matches[m].away_team
        s1 == Add(Add(stats, hs, "games", 1), gs, "games", 1)
        s2 == Add(Add(s1, hs, "goals_for", home_goals), hs, "goals_against", away_goals)
        s3 == Add(Add(s2, gs, "goals_for", away_goals), gs, "goals_against", home_goals)
    IN  IF home_goals > away_goals
        THEN Add(Add(Add(s3, hs, "wins", 1), hs, "points", PointsFor("win")),
                 gs, "losses", 1)
        ELSE IF home_goals < away_goals
        THEN Add(Add(Add(s3, gs, "wins", 1), gs, "points", PointsFor("win")),
                 hs, "losses", 1)
        ELSE Add(Add(Add(Add(s3, hs, "draws", 1), gs, "draws", 1),
                     hs, "points", PointsFor("draw")),
                 gs, "points", PointsFor("draw"))

RECURSIVE CountMatches(_, _, _)
CountMatches(rows, stats, ms) ==
    IF ms = {} THEN stats
    ELSE LET m == CHOOSE x \in ms : TRUE
         IN  CountMatches(rows, CountMatch(rows, stats, m), ms \ {m})

\* key(r) < key(o) for key = (-points, -(goals_for - goals_against),
\* -goals_for). (The variant leaves -goals_for out of the key.)
KeyBeforeWithoutGoalsFor(r, o) ==
    LET rd == r.goals_for - r.goals_against
        od == o.goals_for - o.goals_against
    IN  \/ r.points > o.points
        \/ r.points = o.points /\ rd > od
KeyBefore(r, o) ==
    LET rd == r.goals_for - r.goals_against
        od == o.goals_for - o.goals_against
    IN  \/ r.points > o.points
        \/ r.points = o.points /\ rd > od
        \/ r.points = o.points /\ rd = od /\ r.goals_for > o.goals_for

\* sorted(rows, key=...): stable, so of two rows with equal keys the one
\* that comes first in `rows` comes first. `left` holds the positions not
\* placed yet.
RECURSIVE Sorted(_, _)
Sorted(rows, left) ==
    IF left = {} THEN <<>>
    ELSE LET i == CHOOSE k \in left :
                      \A o \in left \ {k} :
                          \/ KeyBefore(rows[k], rows[o])
                          \/ ~ KeyBefore(rows[o], rows[k]) /\ k < o
         IN  <<rows[i]>> \o Sorted(rows, left \ {i})

\* The table, for the order `teams` in which Team.objects.all() yields the
\* teams (the model has no ordering, the database chooses).
\* (The variant lists only the teams that played.)
standings_of_played(teams) ==
    LET stats == CountMatches(events, [t \in Teams |-> EmptyRow(t)], finished_matches)
        rows == [i \in DOMAIN teams |-> stats[teams[i]]]
        IsPlayed(r) == r.games > 0
        played == SelectSeq(rows, IsPlayed)
    IN  Sorted(played, DOMAIN played)

\* The table computed on the stored events `stored`.
StandingsOn(stored, teams) ==
    LET stats == CountMatches(stored, [t \in Teams |-> EmptyRow(t)], finished_matches)
        rows == [i \in DOMAIN teams |-> stats[teams[i]]]
    IN  Sorted(rows, DOMAIN rows)

calculate_standings(teams) == StandingsOn(events, teams)

----------------------------------------------------------------------------
(* get_on_field_player_ids *)

\* ORDER BY minute, added_time, id on PostgreSQL: ascending, NULLs last.
OrderedBefore(e1, e2) ==
    \/ e1.minute < e2.minute
    \/ /\ e1.minute = e2.minute
       /\ \/ e1.added_time # None /\ e2.added_time = None
          \/ e1.added_time # None /\ e2.added_time # None
                /\ e1.added_time < e2.added_time
          \/ e1.added_time = e2.added_time /\ e1.id < e2.id

RECURSIVE OrderBy(_)
OrderBy(rows) ==
    IF rows = {} THEN <<>>
    ELSE LET first == CHOOSE e \in rows :
                          \A o \in rows \ {e} : OrderedBefore(e, o)
         IN  <<first>> \o OrderBy(rows \ {first})

\* subs = MatchEvent.objects.filter(match, team, 'замена').order_by(...)
SubsOf(match, team) ==
    OrderBy({ e \in events :
        e.match = match /\ e.team = team /\ e.event_type = "sub" })

\* time_key(e) = (e.minute or 0, e.added_time or 0)
SameTimeKey(e1, e2) ==
    OrZero(e1.minute) = OrZero(e2.minute)
        /\ OrZero(e1.added_time) = OrZero(e2.added_time)

\* itertools.groupby: the last index of the run of equal keys starting at i.
RECURSIVE GroupEnd(_, _)
GroupEnd(subs, i) ==
    IF i < Len(subs) /\ SameTimeKey(subs[i], subs[i + 1])
    THEN GroupEnd(subs, i + 1)
    ELSE i

\* `if (m, a) >= target: break`. (The variant with the comparison turned
\* round, target >= (m, a), stops at the groups it should apply.)
ReachedTargetReversed(e, minute, added_time) ==
    TupleGE(OrZero(minute), OrZero(added_time),
            OrZero(e.minute), OrZero(e.added_time))
ReachedTarget(e, minute, added_time) ==
    TupleGE(OrZero(e.minute), OrZero(e.added_time),
            OrZero(minute), OrZero(added_time))

\* The body of the loop for one group: players on the field leave, the
\* others enter.
ApplyGroup(on_field, group) ==
    LET players_in_group == { e.player : e \in { g \in group : Truthy(g.player) } }
        out_candidates == players_in_group \cap on_field
        in_candidates == players_in_group \ on_field
    IN  (on_field \ out_candidates) \cup in_candidates

RECURSIVE WalkGroups(_, _, _, _, _)
WalkGroups(subs, i, on_field, minute, added_time) ==
    IF i > Len(subs) THEN on_field
    ELSE IF ReachedTarget(subs[i], minute, added_time) THEN on_field
    ELSE LET j == GroupEnd(subs, i)
             group == { subs[k] : k \in i..j }
         IN  WalkGroups(subs, j + 1, ApplyGroup(on_field, group),
                        minute, added_time)

get_on_field_player_ids(match, team, minute, added_time) ==
    WalkGroups(SubsOf(match, team), 1, Starting(match, team),
               minute, added_time)

----------------------------------------------------------------------------
(* match_detail: build_team_events *)

\* team_events = [e for e in events if e.team_id == team.id], events being
\* the rows of the match ordered by ('minute', 'added_time', 'id').
team_events_of(match, team) ==
    OrderBy({ e \in events : e.match = match /\ e.team = team })

\* The first not yet used assist row after position i with the minute and
\* the added_time of the goal at i; 0 when there is none.
FindAssist(team_events, i, used_ids) ==
    LET found == { j \in (i + 1)..Len(team_events) :
                     /\ team_events[j].id \notin used_ids
                     /\ team_events[j].event_type = "assist"
                     /\ team_events[j].minute = team_events[i].minute
                     /\ team_events[j].added_time = team_events[i].added_time }
    IN  IF found = {} THEN 0
        ELSE CHOOSE j \in found : \A k \in found : j <= k

\* The row after a substitution row when it is a substitution of the same
\* minute and added_time; 0 otherwise.
FindIn(team_events, i) ==
    IF /\ i + 1 <= Len(team_events)
       /\ team_events[i + 1].event_type = "sub"
       /\ team_events[i + 1].minute = team_events[i].minute
       /\ team_events[i + 1].added_time = team_events[i].added_time
    THEN i + 1 ELSE 0

\* The while loop: st holds display, used_ids, sub_out_ids and sub_in_ids.
RECURSIVE BuildLoop(_, _, _)
BuildLoop(team_events, i, st) ==
    IF i > Len(team_events) THEN st
    ELSE LET e == team_events[i]
             et == e.event_type
         IN
         IF e.id \in st.used_ids THEN BuildLoop(team_events, i + 1, st)
         ELSE IF et \in {"goal", "penalty_goal"} THEN
             LET j == FindAssist(team_events, i, st.used_ids)
                 entry == [kind |-> "goal", minute |-> e.minute,
                           added |-> e.added_time, player |-> e.player,
                           is_penalty |-> (et = "penalty_goal"),
                           assist |-> IF j # 0 /\ Truthy(team_events[j].player)
                                      THEN team_events[j].player ELSE None]
             IN  BuildLoop(team_events, i + 1,
                     [st EXCEPT !.display = Append(@, entry),
                                !.used_ids = @ \cup {e.id} \cup
                                    (IF j # 0 THEN {team_events[j].id} ELSE {})])
         ELSE IF et = "own_goal" THEN
             BuildLoop(team_events, i + 1,
                 [st EXCEPT !.display = Append(@,
                                [kind |-> "own_goal", minute |-> e.minute,
                                 added |-> e.added_time, player |-> e.player]),
                            !.used_ids = @ \cup {e.id}])
         ELSE IF et \in {"yellow", "red"} THEN
             BuildLoop(team_events, i + 1,
                 [st EXCEPT !.display = Append(@,
                                [kind |-> "card", minute |-> e.minute,
                                 added |-> e.added_time, player |-> e.player,
                                 card |-> et]),
                            !.used_ids = @ \cup {e.id}])
         ELSE IF et = "sub" THEN
             LET j == FindIn(team_events, i)
                 entry == [kind |-> "sub", minute |-> e.minute,
                           added |-> e.added_time, player_out |-> e.player,
                           player_in |-> IF j # 0 THEN team_events[j].player
                                         ELSE None]
             IN  BuildLoop(team_events, IF j # 0 THEN i + 2 ELSE i + 1,
                     [st EXCEPT !.display = Append(@, entry),
                                !.used_ids = @ \cup {e.id} \cup
                                    (IF j # 0 THEN {team_events[j].id} ELSE {}),
                                !.sub_out_ids = @ \cup
                                    (IF Truthy(e.player) THEN {e.player} ELSE {}),
                                !.sub_in_ids = @ \cup
                                    (IF j # 0 /\ Truthy(team_events[j].player)
                                     THEN {team_events[j].player} ELSE {})])
         ELSE BuildLoop(team_events, i + 1, st)

\* display, sub_out_ids, sub_in_ids (with the loop's used_ids)
build_team_events(match, team) ==
    BuildLoop(team_events_of(match, team), 1,
              [display |-> <<>>, used_ids |-> {},
               sub_out_ids |-> {}, sub_in_ids |-> {}])

----------------------------------------------------------------------------
(* match_events_edit: the add_event branch *)

\* One validation: the message is appended when the condition holds.
Err(cond, message) == IF cond THEN <<message>> ELSE <<>>

\* Team.objects.filter(pk=event_team_id).first(), for an event_team that is
\* a numeral
TeamByPk(raw) ==
    IF raw \in DOMAIN Numeral /\ Numeral[raw] \in Teams
    THEN Numeral[raw] ELSE None

\* minute = int(minute_val), None on TypeError / ValueError
ParseMinute(req) == IntOrNone(req.event_minute)

\* "Минута события должна быть в диапазоне от 1 до 90."
MinMinute == 1
MaxMinute == 90
\* `minute is None or minute < 1 or minute > 90`. (The variant has no upper
\* limit.)
MinuteOutOfRangeNoUpper(minute) == minute = None \/ minute < MinMinute
MinuteOutOfRange(minute) ==
    minute = None \/ minute < MinMinute \/ minute > MaxMinute

\* added_val = request.POST.get('event_added_time', '').strip();
\* '' gives None, a text int() refuses gives None
ParseAddedTime(req) ==
    IF Falsy(req.event_added_time) THEN None
    ELSE IntOrNone(req.event_added_time)

\* The checks before `if not errors:`.
PreludeErrors(req) ==
    Err(Falsy(req.event_team), "team_required")
        \o Err(MinuteOutOfRange(ParseMinute(req)), "minute_range")

\* squad_ids_this: the home squad for the home team, the away squad for
\* every other team.
squad_ids_this(match, team) ==
    IF team = matches[match].home_team
    THEN SquadIds(match, matches[match].home_team)
    ELSE SquadIds(match, matches[match].away_team)

\* `if pid and pid not in squad_ids_this`
NotInSquad(pid, squad) == Truthy(pid) /\ pid \notin squad

\* `if pid and pid not in on_field`. (The variant never finds a player off
\* the field.)
NotOnFieldUnchecked(pid, on_field) == FALSE
NotOnField(pid, on_field) == Truthy(pid) /\ pid \notin on_field

\* `if player_in_id and player_in_id in on_field`. (The variant never finds
\* the incoming player on the field.)
AlreadyOnFieldUnchecked(pid, on_field) == FALSE
AlreadyOnField(pid, on_field) == Truthy(pid) /\ pid \in on_field

\* `if a and b and a == b`
SamePlayer(a, b) == Truthy(a) /\ Truthy(b) /\ a = b

\* A player field read as in the goal / penalty / own / card branches:
\* an empty field stays falsy, a text int() refuses becomes None.
PlayerId(raw) == IF Falsy(raw) THEN None ELSE IntOrNone(raw)
BadNumber(raw) == ~ Falsy(raw) /\ raw \notin DOMAIN Numeral

\* The row handed to MatchEvent.objects.create(...).
NewRow(match, team, player, event_type, minute, added_time) ==
    [match |-> match, team |-> team, player |-> player,
     event_type |-> event_type, minute |-> minute, added_time |-> added_time]

\* mode == 'goal'
GoalBranch(match, team, req, minute, added_time) ==
    LET scorer_id == PlayerId(req.event_player)
        assist_id == PlayerId(req.assist_player)
        squad == squad_ids_this(match, team)
        on_field == get_on_field_player_ids(match, team, minute, added_time)
        errs ==
            Err(Falsy(req.event_player), "choose_scorer")
            \o Err(BadNumber(req.event_player), "bad_scorer")
            \o Err(BadNumber(req.assist_player), "bad_assist")
            \o Err(NotInSquad(scorer_id, squad), "scorer_not_in_squad")
            \o Err(NotInSquad(assist_id, squad), "assist_not_in_squad")
            \o Err(NotOnField(scorer_id, on_field), "scorer_not_on_field")
            \o Err(NotOnField(assist_id, on_field), "assist_not_on_field")
            \o Err(SamePlayer(assist_id, scorer_id), "assist_is_scorer")
        goal == NewRow(match, team, scorer_id, "goal", minute, added_time)
        assist == NewRow(match, team, assist_id, "assist", minute, added_time)
    IN  [errors |-> errs,
         creates |-> IF Truthy(assist_id) THEN <<goal, assist>> ELSE <<goal>>]

\* mode == 'penalty', mode == 'own', mode in ['yellow', 'red']: one player,
\* one row. `kind` names the branch's messages.
SinglePlayerBranch(match, team, req, minute, added_time, kind, event_type) ==
    LET player_id == PlayerId(req.event_player)
        squad == squad_ids_this(match, team)
        on_field == get_on_field_player_ids(match, team, minute, added_time)
        errs ==
            Err(Falsy(req.event_player), "choose_" \o kind)
            \o Err(BadNumber(req.event_player), "bad_" \o kind)
            \o Err(NotInSquad(player_id, squad), kind \o "_not_in_squad")
            \o Err(NotOnField(player_id, on_field), kind \o "_not_on_field")
    IN  [errors |-> errs,
         creates |-> << NewRow(match, team, player_id, event_type,
                               minute, added_time) >>]

\* mode == 'sub': int(x) if x else None, None on ValueError
SubPlayerId(raw) == IF Falsy(raw) THEN None ELSE IntOrNone(raw)

SubBranch(match, team, req, minute, added_time) ==
    LET player_out_id == SubPlayerId(req.sub_out)
        player_in_id == SubPlayerId(req.sub_in)
        squad == squad_ids_this(match, team)
        on_field == get_on_field_player_ids(match, team, minute, added_time)
        errs ==
            Err(~ Truthy(player_out_id) \/ ~ Truthy(player_in_id),
                "choose_both_sub_players")
            \o Err(NotInSquad(player_out_id, squad), "sub_out_not_in_squad")
            \o Err(NotInSquad(player_in_id, squad), "sub_in_not_in_squad")
            \o Err(NotOnField(player_out_id, on_field), "sub_out_not_on_field")
            \o Err(AlreadyOnField(player_in_id, on_field), "sub_in_on_field")
            \o Err(SamePlayer(player_in_id, player_out_id), "sub_same_player")
    IN  [errors |-> errs,
         creates |-> << NewRow(match, team, player_out_id, "sub",
                               minute, added_time),
                        NewRow(match, team, player_in_id, "sub",
                               minute, added_time) >>]

\* The dispatch on event_mode, entered with a team that exists.
ModeBranch(match, team, req, minute, added_time) ==
    CASE req.event_mode = "goal" ->
            GoalBranch(match, team, req, minute, added_time)
      [] req.event_mode = "penalty" ->
            SinglePlayerBranch(match, team, req, minute, added_time,
                               "penalty", "penalty_goal")
      [] req.event_mode = "own" ->
            SinglePlayerBranch(match, team, req, minute, added_time,
                               "own", "own_goal")
      [] req.event_mode = "yellow" ->
            SinglePlayerBranch(match, team, req, minute, added_time,
                               "card", "yellow")
      [] req.event_mode = "red" ->
            SinglePlayerBranch(match, team, req, minute, added_time,
                               "card", "red")
      [] req.event_mode = "sub" ->
            SubBranch(match, team, req, minute, added_time)
      [] OTHER -> [errors |-> <<"choose_mode">>, creates |-> <<>>]

\* The whole validation of one add_event POST: the error list, and the rows
\* the branch creates when the list is empty. (The variant leaves out the
\* branch's `if not errors:` before its creates.)
ValidateUngated(match, req) ==
    LET minute == ParseMinute(req)
        added_time == ParseAddedTime(req)
        prelude == PreludeErrors(req)
        team == TeamByPk(req.event_team)
    IN  IF prelude # <<>> THEN [errors |-> prelude, creates |-> <<>>]
        ELSE IF team = None
             THEN [errors |-> <<"team_not_found">>, creates |-> <<>>]
        ELSE ModeBranch(match, team, req, minute, added_time)
Validate(match, req) ==
    LET minute == ParseMinute(req)
        added_time == ParseAddedTime(req)
        prelude == PreludeErrors(req)
        team == TeamByPk(req.event_team)
    IN  IF prelude # <<>> THEN [errors |-> prelude, creates |-> <<>>]
        ELSE IF team = None
             THEN [errors |-> <<"team_not_found">>, creates |-> <<>>]
        ELSE LET branch == ModeBranch(match, team, req, minute, added_time)
             IN  IF branch.errors # <<>>
                 THEN [errors |-> branch.errors, creates |-> <<>>]
                 ELSE branch

\* MatchEvent.player is a foreign key to Player (null allowed): PostgreSQL
\* refuses a row whose player id names no Player row (IntegrityError).
ForeignKeyOk(row) == row.player = None \/ row.player \in Players

\* The rows of `creates` stored before the first refused one, each taking
\* the next id of the sequence (each create() is its own transaction).
RECURSIVE Stored(_, _, _)
Stored(creates, i, id) ==
    IF i > Len(creates) \/ ~ ForeignKeyOk(creates[i]) THEN {}
    ELSE { [id |-> id] @@ creates[i] } \cup Stored(creates, i + 1, id + 1)

\* The sequence values consumed: the refused INSERT takes one as well.
Consumed(creates) ==
    IF \E i \in 1..Len(creates) : ~ ForeignKeyOk(creates[i])
    THEN 1 + Cardinality(Stored(creates, 1, 0))
    ELSE Len(creates)

----------------------------------------------------------------------------
(* Requests *)

\* The POST fields the add_event branch reads.
Req(team, mode, minute, added, player, assist, out, in) ==
    [event_team |-> team, event_mode |-> mode, event_minute |-> minute,
     event_added_time |-> added, event_player |-> player,
     assist_player |-> assist, sub_out |-> out, sub_in |-> in]

\* The request a handler holds: the match_id of the URL and the POST fields.
Posted(match, req) == [match_id |-> match] @@ req

NoRequest ==
    Posted(None, Req(Absent, Absent, Absent, Absent, Absent, Absent, Absent, Absent))

GoalReq(team, minute, added, player, assist) ==
    Req(team, "goal", minute, added, player, assist, Absent, Absent)
SubReq(team, minute, added, out, in) ==
    Req(team, "sub", minute, added, Absent, Absent, out, in)
SingleReq(team, mode, minute, added, player) ==
    Req(team, mode, minute, added, player, Absent, Absent, Absent)

\* Player fields: empty, not a number, the id 0, the five players.
PlayerTexts == {"", "x", "0", "1", "2", "3", "4", "5"}

\* Team 1 at minute 1 without stoppage time: goals and substitutions with
\* every pair of player texts, every one-player mode with every text but
\* the second starter's (the yellow card has that one too).
TeamOneRequests ==
    { GoalReq("1", "1", "", p, a) : p \in PlayerTexts, a \in PlayerTexts }
    \cup { SubReq("1", "1", "", o, i) : o \in PlayerTexts, i \in PlayerTexts }
    \cup { SingleReq("1", "yellow", "1", "", p) : p \in PlayerTexts }
    \cup { SingleReq("1", m, "1", "", p) :
              m \in {"penalty", "own", "red"}, p \in PlayerTexts \ {"2"} }

\* Team 2 at minute 1: its starter and a player of team 1.
TeamTwoRequests ==
    { GoalReq("2", "1", "", p, a) : p \in {"1", "5"}, a \in {"", "1"} }
    \cup { SingleReq("2", "own", "1", "", p) : p \in {"1", "5"} }
    \cup { SubReq("2", "1", "", "5", "1"), SubReq("2", "1", "", "1", "5") }

\* Team 1 at later cutoffs, minute 1 + 1 and minute 90: a starter and a
\* bench player.
LaterRequests ==
    { SubReq("1", "1", "1", o, i) : o \in {"1", "3"}, i \in {"1", "3"} }
    \cup { SingleReq("1", "yellow", "1", "1", p) : p \in {"1", "3"} }
    \cup { SingleReq("1", "yellow", "90", "", p) : p \in {"1", "3"} }
    \cup { GoalReq("1", "90", "", "2", a) : a \in {"1", "3"} }

\* Requests that differ in team, mode and minute, for a player of team 1
\* and one of team 2.
PreludeRequests ==
    { Req(t, m, mi, "", p, Absent, p, "3") :
          t \in {"", "9", "1"},
          m \in {Absent, "yellow", "sub"},
          mi \in {Absent, "abc", "0", "90", "91"},
          p \in {"1", "5"} }

\* A card for a starter of team 1 with a stoppage time int() reads as -1.
StoppageRequests ==
    { SingleReq("1", "yellow", "1", "-1", "1") }

Requests ==
    TeamOneRequests \cup TeamTwoRequests \cup LaterRequests
        \cup PreludeRequests \cup StoppageRequests

\* The (home_team, away_team) pairs posted to MatchForm.
MatchFormInputs == { <<1, 2>>, <<1, 1>> }

----------------------------------------------------------------------------
(* Actions *)

\* The largest MatchEvent id the model hands out.
MaxEventId == 4

Init ==
    /\ matches = [m \in MatchIds |->
                     [home_team |-> 1, away_team |-> 2, status |-> "scheduled"]]
    /\ lineups = InitialLineups
    /\ events = {}
    /\ next_id = 1
    /\ request = NoRequest
    /\ errors = <<>>
    /\ response = "none"
    /\ players = Players
    /\ team_players = {}
    /\ next_tp_id = 1

\* POST with 'add_event': the whole branch, from reading the fields to the
\* redirect (every row created), the re-rendered page (errors) or the
\* uncaught IntegrityError. The model takes requests while two more ids
\* are left.
add_event(match, req) ==
    LET result == Validate(match, req)
        stored == Stored(result.creates, 1, next_id)
    IN  /\ response = "none"
        /\ next_id + 1 <= MaxEventId
        /\ request' = Posted(match, req)
        /\ errors' = result.errors
        /\ events' = events \cup stored
        /\ next_id' = next_id + Consumed(result.creates)
        /\ response' =
              IF result.errors # <<>> THEN "render"
              ELSE IF Cardinality(stored) < Len(result.creates) THEN "error500"
              ELSE "redirect"
        /\ UNCHANGED <<matches, lineups, players, team_players, next_tp_id>>

\* The response leaves the server: the handler's locals are gone.
respond ==
    /\ response # "none"
    /\ request' = NoRequest
    /\ errors' = <<>>
    /\ response' = "none"
    /\ UNCHANGED <<matches, lineups, events, next_id, players, team_players, next_tp_id>>

\* The rows the delete_events branch adds to the selected row `ev`. (The
\* variant does not filter on the minute.)
CascadeAnyMinute(match, ev) ==
    { e \in events :
        /\ e.match = match
        /\ e.team = ev.team
        /\ \/ ev.event_type \in ScoringTypes /\ e.event_type = "assist"
           \/ ev.event_type = "assist" /\ e.event_type \in ScoringTypes
           \/ ev.event_type = "sub" /\ e.event_type = "sub" }
Cascade(match, ev) ==
    { e \in events :
        /\ e.match = match
        /\ e.team = ev.team
        /\ e.minute = ev.minute
        /\ e.added_time = ev.added_time
        /\ \/ ev.event_type \in ScoringTypes /\ e.event_type = "assist"
           \/ ev.event_type = "assist" /\ e.event_type \in ScoringTypes
           \/ ev.event_type = "sub" /\ e.event_type = "sub" }

\* POST with 'delete_events': the selected rows of the match and the rows
\* paired with them by team and time; nothing without a selection
\* (`if ids:`).
delete_events(match, ids) ==
    LET base_qs == { e \in events : e.match = match /\ e.id \in ids }
        to_delete ==
            IF ids = {} THEN {}
            ELSE base_qs \cup UNION { Cascade(match, ev) : ev \in base_qs }
    IN  /\ response = "none"
        /\ events' = { e \in events : ~ (e.match = match /\ e \in to_delete) }
        /\ UNCHANGED <<matches, lineups, next_id, request, errors, response, players, team_players, next_tp_id>>

\* match_edit, POST with 'save_match': MatchForm stores the teams and the
\* status it is given; it does not compare the two teams.
save_match_form(match, home, away, status) ==
    /\ response = "none"
    /\ matches' = [matches EXCEPT ![match] =
                      [home_team |-> home, away_team |-> away, status |-> status]]
    /\ UNCHANGED <<lineups, events, next_id, request, errors, response, players, team_players, next_tp_id>>

\* The same POST with the status field as it was.
save_match(match, home, away) ==
    save_match_form(match, home, away, matches[match].status)

Next ==
    \/ \E m \in MatchIds, req \in Requests : add_event(m, req)
    \/ respond
    \/ \E m \in MatchIds, ids \in SUBSET (1..MaxEventId) : delete_events(m, ids)
    \/ \E m \in MatchIds, f \in MatchFormInputs : save_match(m, f[1], f[2])

Spec == Init /\ [][Next]_vars

----------------------------------------------------------------------------
(* The add_event branch statement by statement: each create() is its own   *)
(* transaction (autocommit, no transaction.atomic), so a request that      *)
(* creates two rows commits the first before it runs the second.           *)

\* Requests that create two rows, and requests that create one or none.
TwoRowRequests ==
    { GoalReq("1", "1", "", "1", "2"), GoalReq("1", "1", "", "2", "1"),
      SubReq("1", "1", "", "1", "3"), SubReq("1", "1", "", "2", "4") }
OneRowRequests ==
    { GoalReq("1", "1", "", "1", ""), SingleReq("1", "yellow", "1", "", "3"),
      SingleReq("1", "yellow", "1", "", "1"), SubReq("1", "1", "", "1", "1") }

\* The rows the request held by the handler creates once validation passed.
CreatesOf(req) ==
    ModeBranch(req.match_id, TeamByPk(req.event_team), req,
               ParseMinute(req), ParseAddedTime(req)).creates

\* Validation passed for a request with two rows: the first create() runs
\* and commits.
create_first(match, req) ==
    LET result == Validate(match, req)
    IN  /\ response = "none"
        /\ next_id + 1 <= MaxEventId
        /\ result.errors = <<>>
        /\ Len(result.creates) = 2
        /\ request' = Posted(match, req)
        /\ errors' = <<>>
        /\ events' = events \cup Stored(<<result.creates[1]>>, 1, next_id)
        /\ next_id' = next_id + 1
        /\ response' = "creating"
        /\ UNCHANGED <<matches, lineups, players, team_players, next_tp_id>>

\* The second create() of the same request, then the redirect.
create_second ==
    /\ response = "creating"
    /\ events' = events \cup Stored(<<CreatesOf(request)[2]>>, 1, next_id)
    /\ next_id' = next_id + 1
    /\ response' = "redirect"
    /\ UNCHANGED <<matches, lineups, request, errors, players, team_players, next_tp_id>>

\* The worker stops between the two statements (killed, connection lost):
\* the second create() never runs.
abort_between ==
    /\ response = "creating"
    /\ response' = "error500"
    /\ UNCHANGED <<matches, lineups, events, next_id, request, errors, players, team_players, next_tp_id>>

\* A delete_events POST handled by another worker between the two
\* statements.
interleaved_delete_events(match, ids) ==
    LET base_qs == { e \in events : e.match = match /\ e.id \in ids }
        to_delete == base_qs \cup UNION { Cascade(match, ev) : ev \in base_qs }
    IN  /\ response = "creating"
        /\ ids # {}
        /\ events' = { e \in events : ~ (e.match = match /\ e \in to_delete) }
        /\ UNCHANGED <<matches, lineups, next_id, request, errors, response, players, team_players, next_tp_id>>

\* The response of a finished request leaves the server.
respond_finished == response # "creating" /\ respond

NextSteps ==
    \/ \E m \in MatchIds, req \in TwoRowRequests : create_first(m, req)
    \/ create_second
    \/ abort_between
    \/ \E m \in MatchIds, ids \in SUBSET (1..MaxEventId) :
          interleaved_delete_events(m, ids)
    \/ \E m \in MatchIds, req \in OneRowRequests : add_event(m, req)
    \/ respond_finished
    \/ \E m \in MatchIds, ids \in SUBSET (1..MaxEventId) : delete_events(m, ids)

SpecSteps == Init /\ [][NextSteps]_vars

----------------------------------------------------------------------------
(* A league of three teams and two matches, 1 v 2 and 2 v 3, whose events  *)
(* and statuses change; the standings are computed from its rows.          *)

LeagueMatchIds == {1, 2}

\* The lineups of the two matches: player 1 for team 1, player 5 for
\* team 2, player 4 for team 3.
LeagueLineups ==
    { [match |-> 1, team |-> 1, player |-> 1, is_starting |-> TRUE],
      [match |-> 1, team |-> 2, player |-> 5, is_starting |-> TRUE],
      [match |-> 2, team |-> 2, player |-> 5, is_starting |-> TRUE],
      [match |-> 2, team |-> 3, player |-> 4, is_starting |-> TRUE] }

InitLeague ==
    /\ matches = [m \in LeagueMatchIds |->
                     [home_team |-> m, away_team |-> m + 1, status |-> "scheduled"]]
    /\ lineups = LeagueLineups
    /\ events = {}
    /\ next_id = 1
    /\ request = NoRequest
    /\ errors = <<>>
    /\ response = "none"
    /\ players = Players
    /\ team_players = {}
    /\ next_tp_id = 1

\* A goal of each team's player and an own goal of team 1's, at minute 1.
LeagueRequests ==
    { GoalReq("1", "1", "", "1", ""), GoalReq("2", "1", "", "5", ""),
      GoalReq("3", "1", "", "4", ""), SingleReq("1", "own", "1", "", "1") }

\* The teams the match form is posted with: the fixture's, or team 2 as
\* both home and away.
LeagueForms(match) == { <<match, match + 1>>, <<2, 2>> }

NextLeague ==
    \/ \E m \in LeagueMatchIds, req \in LeagueRequests : add_event(m, req)
    \/ respond
    \/ \E m \in LeagueMatchIds, st \in Statuses :
           \E f \in LeagueForms(m) : save_match_form(m, f[1], f[2], st)
    \/ \E m \in LeagueMatchIds, id \in 1..MaxEventId : delete_events(m, {id})

SpecLeague == InitLeague /\ [][NextLeague]_vars

----------------------------------------------------------------------------
(* Rosters: team_squad_edit, player_create and the save_team branch of     *)
(* player_edit, each request handled from its first statement to its last. *)

\* The largest Player id and TeamPlayer id the model hands out.
MaxPlayerId == 3
MaxTeamPlayerId == 4

\* TeamPlayer.objects.filter(team=team)
squad_qs(team) == { tp \in team_players : tp.team = team }

\* TeamPlayer.objects.filter(player=player).exists() on the rows `rows`.
\* (The variant never finds a membership.)
MembershipNotLookedUp(rows, player) == FALSE
HasMembership(rows, player) == \E tp \in rows : tp.player = player

\* Player.objects.filter(pk=raw).first(), for a numeral
PlayerByPk(raw) ==
    IF raw \in DOMAIN Numeral /\ Numeral[raw] \in players
    THEN Numeral[raw] ELSE None

\* new_num of one membership: None for an empty or non-numeric text.
NewNum(numbers, tp) ==
    IF numbers[tp.id] = "" THEN None ELSE IntOrNone(numbers[tp.id])

\* new_player_number: None for an empty or non-numeric text.
NewPlayerNumber(raw) == IF raw = "" THEN None ELSE IntOrNone(raw)

\* The loop over `updates` meets a number that is already in used_numbers:
\* two memberships that stay are given the same number.
NumberRepeated(kept, numbers) ==
    \E a \in kept, b \in kept :
        a.id # b.id /\ NewNum(numbers, a) # None
                    /\ NewNum(numbers, a) = NewNum(numbers, b)

\* used_numbers after the loop.
UsedNumbers(kept, numbers) ==
    { NewNum(numbers, tp) : tp \in kept } \ {None}

\* `if new_player_id and new_player_number is not None:
\*      if new_player_number in used_numbers:`
\* (The variant does not compare the new player's number.)
NewPlayerNumberNotCompared(new_player_id, new_player_number, used_numbers) == FALSE
NewPlayerNumberUsed(new_player_id, new_player_number, used_numbers) ==
    /\ ~ Falsy(new_player_id)
    /\ new_player_number # None
    /\ new_player_number \in used_numbers

\* The POST of team_squad_edit: the ticked remove_tp boxes, the number_<id>
\* text of every membership of the squad, new_player_id, new_player_number.
SquadPost(remove_tp, numbers, new_player_id, new_player_number) ==
    [remove_tp |-> remove_tp, numbers |-> numbers,
     new_player_id |-> new_player_id, new_player_number |-> new_player_number]

\* The rows after `for tp, new_num, remove_flag in updates`.
AfterUpdates(team, post) ==
    LET squad == squad_qs(team)
        kept == { tp \in squad : tp.id \notin post.remove_tp }
    IN  (team_players \ squad)
            \cup { [tp EXCEPT !.number = NewNum(post.numbers, tp)] : tp \in kept }

\* The membership `if new_player_id:` saves, if any, as a set of rows.
AddedPlayer(team, post, rows) ==
    LET player == PlayerByPk(post.new_player_id)
    IN  IF Falsy(post.new_player_id) \/ player = None
           \/ HasMembership(rows, player)
        THEN {}
        ELSE { [id |-> next_tp_id, team |-> team, player |-> player,
                number |-> NewPlayerNumber(post.new_player_number)] }

\* team_squad_edit, POST: the two early returns with the error page, for a
\* number given twice among the memberships that are not ticked for removal
\* and for a new player's number that one of them has.
SquadErrors(team, post) ==
    LET kept == { tp \in squad_qs(team) : tp.id \notin post.remove_tp }
    IN  \/ NumberRepeated(kept, post.numbers)
        \/ NewPlayerNumberUsed(post.new_player_id,
                               NewPlayerNumber(post.new_player_number),
                               UsedNumbers(kept, post.numbers))

\* team_squad_edit, POST: rejected with an error page when a number is
\* given twice, otherwise the numbers are stored, the ticked memberships
\* deleted, and the new player added when the player has no membership.
team_squad_edit(team, post) ==
    LET rejected == SquadErrors(team, post)
        updated == AfterUpdates(team, post)
        added == AddedPlayer(team, post, updated)
    IN  /\ response = "none"
        /\ next_tp_id <= MaxTeamPlayerId
        /\ team_players' = IF rejected THEN team_players ELSE updated \cup added
        /\ next_tp_id' = IF rejected THEN next_tp_id
                         ELSE next_tp_id + Cardinality(added)
        /\ response' = IF rejected THEN "render" ELSE "redirect"
        /\ UNCHANGED <<matches, lineups, events, next_id, request, errors, players>>

\* player_create, POST with a valid PlayerForm: the player is saved and,
\* when team_id names a team, given a membership without a number.
player_create(team_id) ==
    LET player == Cardinality(players) + 1
        team == TeamByPk(team_id)
        created ==
            IF Falsy(team_id) \/ team = None \/ HasMembership(team_players, player)
            THEN {}
            ELSE { [id |-> next_tp_id, team |-> team, player |-> player,
                    number |-> None] }
    IN  /\ response = "none"
        /\ player <= MaxPlayerId
        /\ next_tp_id <= MaxTeamPlayerId
        /\ players' = players \cup {player}
        /\ team_players' = team_players \cup created
        /\ next_tp_id' = next_tp_id + Cardinality(created)
        /\ response' = "redirect"
        /\ UNCHANGED <<matches, lineups, events, next_id, request, errors>>

\* player_edit, POST with 'save_team': the player's memberships are
\* deleted, then one is created for new_team_id; for a team that does not
\* exist the INSERT fails on the foreign key after taking an id.
save_team(player, new_team_id) ==
    LET remaining == { tp \in team_players : tp.player # player }
        team == TeamByPk(new_team_id)
    IN  /\ response = "none"
        /\ next_tp_id <= MaxTeamPlayerId
        /\ team_players' =
              IF Falsy(new_team_id) \/ team = None THEN remaining
              ELSE remaining \cup { [id |-> next_tp_id, team |-> team,
                                     player |-> player, number |-> None] }
        /\ next_tp_id' = IF Falsy(new_team_id) THEN next_tp_id ELSE next_tp_id + 1
        /\ response' = IF Falsy(new_team_id) \/ team # None
                       THEN "redirect" ELSE "error500"
        /\ UNCHANGED <<matches, lineups, events, next_id, request, errors, players>>

\* Two players: player 1 is in team 1 with number 9, player 2 in team 1
\* without a number.
InitRoster ==
    /\ matches = [m \in MatchIds |->
                     [home_team |-> 1, away_team |-> 2, status |-> "scheduled"]]
    /\ lineups = {}
    /\ events = {}
    /\ next_id = 1
    /\ request = NoRequest
    /\ errors = <<>>
    /\ response = "none"
    /\ players = {1, 2}
    /\ team_players =
          { [id |-> 1, team |-> 1, player |-> 1, number |-> 9],
            [id |-> 2, team |-> 1, player |-> 2, number |-> None] }
    /\ next_tp_id = 3

\* The teams whose squads are edited, and the texts posted.
RosterTeams == {1, 2}
NumberTexts == {"", "5", "9"}
NewPlayerTexts == {"", "1", "3"}
TeamIdTexts == {"", "1", "2", "9"}

\* The POSTs the squad page of `team` can send: a number text for every
\* membership shown, at most one box ticked.
SquadPosts(team) ==
    LET ids == { tp.id : tp \in squad_qs(team) }
    IN  { SquadPost(remove_tp, numbers, new_player_id, new_player_number) :
            remove_tp \in { {} } \cup { {i} : i \in ids },
            numbers \in [ids -> NumberTexts],
            new_player_id \in NewPlayerTexts,
            new_player_number \in {"", "9"} }

NextRoster ==
    \/ \E team \in RosterTeams : \E post \in SquadPosts(team) :
           team_squad_edit(team, post)
    \/ \E team_id \in TeamIdTexts : player_create(team_id)
    \/ \E player \in players, new_team_id \in TeamIdTexts :
           save_team(player, new_team_id)
    \/ respond

SpecRoster == InitRoster /\ [][NextRoster]_vars

----------------------------------------------------------------------------
(* match_edit, POST with 'save_lineups', and a match whose away team is    *)
(* replaced after a player of the old away team moved to the new one.      *)

\* TeamPlayer.objects.filter(team=...) of a side, as player ids.
RosterIds(team) == { tp.player : tp \in squad_qs(team) }

\* player_team_map: the home team for the players of its roster, then the
\* away team for the players of its roster (the later entry wins).
player_team_map(match) ==
    [p \in RosterIds(matches[match].home_team)
              \cup RosterIds(matches[match].away_team) |->
        IF p \in RosterIds(matches[match].away_team)
        THEN matches[match].away_team ELSE matches[match].home_team]

\* The ticked boxes: home_players, away_players, home_starters,
\* away_starters, read with to_int_set.
LineupPost(home_ids, away_ids, home_start_ids, away_start_ids) ==
    [home_ids |-> home_ids, away_ids |-> away_ids,
     home_start_ids |-> home_start_ids, away_start_ids |-> away_start_ids]

\* The handler: starters are roster players of their side (the cap of 11
\* is never reached with the rosters of the model), lineup rows of players
\* not ticked are deleted, and every ticked player of a roster gets or
\* keeps one row, with the team of player_team_map.
save_lineups(match, post) ==
    LET map == player_team_map(match)
        valid_home_starters ==
            RosterIds(matches[match].home_team) \cap post.home_start_ids
        valid_away_starters ==
            RosterIds(matches[match].away_team) \cap post.away_start_ids
        selected_ids == post.home_ids \cup post.away_ids
        starter_ids == valid_home_starters \cup valid_away_starters
        others == { lu \in lineups : lu.match # match }
        untouched == { lu \in lineups :
                         /\ lu.match = match /\ lu.player \in selected_ids
                         /\ lu.player \notin DOMAIN map }
        written == { [match |-> match, team |-> map[pid], player |-> pid,
                      is_starting |-> pid \in starter_ids] :
                        pid \in selected_ids \cap DOMAIN map }
    IN  /\ response = "none"
        /\ lineups' = others \cup untouched \cup written
        /\ UNCHANGED <<matches, events, next_id, request, errors, response,
                       players, team_players, next_tp_id>>

\* Match 1, team 1 v team 2: player 1 starts for team 1, player 5 starts
\* for team 2 and player 4 is on its bench; the rosters are the same.
InitTransfer ==
    /\ matches = [m \in MatchIds |->
                     [home_team |-> 1, away_team |-> 2, status |-> "scheduled"]]
    /\ lineups =
          { [match |-> 1, team |-> 1, player |-> 1, is_starting |-> TRUE],
            [match |-> 1, team |-> 2, player |-> 5, is_starting |-> TRUE],
            [match |-> 1, team |-> 2, player |-> 4, is_starting |-> FALSE] }
    /\ events = {}
    /\ next_id = 1
    /\ request = NoRequest
    /\ errors = <<>>
    /\ response = "none"
    /\ players = Players
    /\ team_players =
          { [id |-> 1, team |-> 1, player |-> 1, number |-> None],
            [id |-> 2, team |-> 2, player |-> 5, number |-> None],
            [id |-> 3, team |-> 2, player |-> 4, number |-> None] }
    /\ next_tp_id = 4

\* A substitution of team 2, and goals of player 4 for teams 2 and 3 and of
\* player 1 for team 1.
TransferRequests ==
    { SubReq("2", "1", "", "5", "4"), GoalReq("2", "2", "", "4", ""),
      GoalReq("3", "2", "", "4", ""), GoalReq("1", "2", "", "1", "") }

\* The lineup pages posted: player 1 for the home side, players 4 and 5 or
\* player 4 alone for the away side, all ticked players starting or only
\* the first of each side.
LineupPosts ==
    { LineupPost({1}, away_ids, {1}, away_start_ids) :
          away_ids \in { {4}, {4, 5} }, away_start_ids \in { {4}, {5} } }

NextTransfer ==
    \/ \E m \in MatchIds, req \in TransferRequests : add_event(m, req)
    \/ respond
    \/ \E new_team_id \in {"2", "3"} : save_team(4, new_team_id)
    \/ \E m \in MatchIds : save_match_form(m, 1, 3, matches[m].status)
    \/ \E m \in MatchIds, post \in LineupPosts : save_lineups(m, post)

SpecTransfer == InitTransfer /\ [][NextTransfer]_vars

----------------------------------------------------------------------------
(* Two matches of teams 1 and 2, home and away, with the same lineups,     *)
(* whose events are added and deleted.                                     *)

\* The lineup of match 1 entered for both matches.
BothLineups ==
    { [match |-> m, team |-> lu.team, player |-> lu.player,
       is_starting |-> lu.is_starting] :
          m \in LeagueMatchIds, lu \in InitialLineups }

InitBoth ==
    /\ matches = [m \in LeagueMatchIds |->
                     [home_team |-> m, away_team |-> 3 - m, status |-> "scheduled"]]
    /\ lineups = BothLineups
    /\ events = {}
    /\ next_id = 1
    /\ request = NoRequest
    /\ errors = <<>>
    /\ response = "none"
    /\ players = Players
    /\ team_players = {}
    /\ next_tp_id = 1

\* At minute 1: a goal of team 1 with its assist, a card, an own goal and a
\* substitution of team 1, a goal of team 2; at minute 2 a goal of team 1.
BothRequests ==
    { GoalReq("1", "1", "", "1", "2"), SingleReq("1", "yellow", "1", "", "1"),
      SingleReq("1", "own", "1", "", "2"), GoalReq("2", "1", "", "5", ""),
      SubReq("1", "1", "", "1", "3"), GoalReq("1", "2", "", "2", "") }

NextBoth ==
    \/ \E m \in LeagueMatchIds, req \in BothRequests : add_event(m, req)
    \/ respond
    \/ \E m \in LeagueMatchIds, ids \in SUBSET (1..MaxEventId) :
           delete_events(m, ids)

SpecBoth == InitBoth /\ [][NextBoth]_vars

----------------------------------------------------------------------------
(* Properties of get_match_score *)

\* The rows of one match.
MatchRows(match) == { e \in events : e.match = match }

\* The goals one row brings to the side `side_team` whose opponent is
\* `other_team`: a goal or penalty goal of the side, an own goal of the
\* opponent.
GoalsFor(e, side_team, other_team) ==
    (IF e.event_type \in {"goal", "penalty_goal"} /\ e.team = side_team
     THEN 1 ELSE 0)
    + (IF e.event_type = "own_goal" /\ e.team = other_team THEN 1 ELSE 0)

RECURSIVE TotalFor(_, _, _)
TotalFor(rows, side_team, other_team) ==
    IF rows = {} THEN 0
    ELSE LET e == CHOOSE x \in rows : TRUE
         IN  GoalsFor(e, side_team, other_team)
                 + TotalFor(rows \ {e}, side_team, other_team)

GoalRows == { e \in events : e.event_type \in {"goal", "penalty_goal", "own_goal"} }

\* C1: the home score is the number of goal and penalty-goal rows of the home
\* team plus the number of own-goal rows of the away team, the away score is
\* the same with the teams exchanged, and the assist, card and substitution
\* rows do not change either number.
C1_ScoreFormula ==
    \A m \in MatchIds :
        LET home == matches[m].home_team
            away == matches[m].away_team
        IN  /\ get_match_score(m) =
                  << TotalFor(MatchRows(m), home, away),
                     TotalFor(MatchRows(m), away, home) >>
            /\ get_match_score(m) = ScoreOn(GoalRows, m)

\* An own goal of the away team, a goal of the home team and its assist:
\* the home side has two goals.
C1_Witness ==
    /\ matches[1].home_team # matches[1].away_team
    /\ get_match_score(1) = <<2, 0>>
    /\ \E e \in events : e.event_type = "own_goal" /\ e.team = matches[1].away_team
    /\ \E e \in events : e.event_type = "assist"

\* C2: both numbers of the score are non-negative, and each own-goal row of
\* a match is counted exactly once: it adds one goal to the two numbers
\* together, and none to the number of the team it is attributed to.
C2_OwnGoalCountedOnce ==
    \A m \in MatchIds :
        LET with == get_match_score(m)
        IN  /\ with[1] >= 0 /\ with[2] >= 0
            /\ \A e \in MatchRows(m) :
                  e.event_type = "own_goal" =>
                      LET without == ScoreOn(events \ {e}, m)
                      IN  /\ (with[1] + with[2]) - (without[1] + without[2]) = 1
                          /\ e.team = matches[m].home_team => with[1] = without[1]
                          /\ e.team = matches[m].away_team => with[2] = without[2]

----------------------------------------------------------------------------
(* Properties of get_on_field_player_ids *)

\* C3: at the cutoff minute 0 the on-field set of a team is exactly the set
\* of its players whose lineup row is flagged as starting.
C3_StartersAtZero ==
    \A m \in MatchIds, t \in Teams, a \in {None, 0} :
        get_on_field_player_ids(m, t, 0, a) =
            { lu.player : lu \in { l \in lineups :
                l.match = m /\ l.team = t /\ l.is_starting = TRUE } }

\* Team 1 has substitutions stored, and its on-field set at minute 90 is not
\* its starting set any more.
C3_Witness ==
    /\ \E e \in events : e.event_type = "sub" /\ e.team = 1
    /\ get_on_field_player_ids(1, 1, 90, None) # Starting(1, 1)
    /\ get_on_field_player_ids(1, 1, 0, None) = {1, 2}

\* The cutoffs the on-field set is asked at: (minute, added_time).
Cutoffs == { <<m, a>> : m \in {0, 1, 2, 90}, a \in {None, 0, 1, 2} }

\* The cutoff c lies strictly after the timestamp of row e.
StrictlyAfter(c, e) ==
    \/ c[1] > e.minute
    \/ c[1] = e.minute /\ OrZero(c[2]) > OrZero(e.added_time)

\* Rows `out` and `in` are the pair one substitution stored for its team: a
\* starter leaves, a bench player enters, and no other substitution row of
\* the team names either player.
SubPair(out, in) ==
    /\ out.event_type = "sub" /\ in.event_type = "sub"
    /\ in.id = out.id + 1
    /\ in.match = out.match /\ in.team = out.team
    /\ in.minute = out.minute /\ in.added_time = out.added_time
    /\ out.player \in Starting(out.match, out.team)
    /\ in.player \in SquadIds(out.match, out.team) \ Starting(out.match, out.team)
    /\ \A e \in events \ {out, in} :
          (e.event_type = "sub" /\ e.match = out.match /\ e.team = out.team)
              => e.player \notin {out.player, in.player}

\* C4: for a substitution pair (P out, Q in) stored at timestamp T, with no
\* other substitution of the team involving P or Q, the on-field set at a
\* cutoff strictly after T excludes P and includes Q, and the on-field set
\* at a cutoff at or before T includes P and excludes Q.
C4_CutoffExclusive ==
    \A out \in events, in \in events :
        SubPair(out, in) =>
            \A c \in Cutoffs :
                LET on_field == get_on_field_player_ids(out.match, out.team, c[1], c[2])
                IN  IF StrictlyAfter(c, out)
                    THEN out.player \notin on_field /\ in.player \in on_field
                    ELSE out.player \in on_field /\ in.player \notin on_field

----------------------------------------------------------------------------
(* Properties of the add_event handler *)

\* A step of the add_event handler; request' is the request it answered.
AddEventStep == response = "none" /\ response' # "none"

\* The elements of a list.
Range(list) == { list[i] : i \in DOMAIN list }

\* What the answered request says: its match, team, minute, stoppage time.
PostedMatch == request'.match_id
PostedTeam == TeamByPk(request'.event_team)
PostedMinute == IntOrNone(request'.event_minute)
PostedAddedTime ==
    IF request'.event_added_time \in {Absent, ""} THEN None
    ELSE IntOrNone(request'.event_added_time)

\* The minute is a whole number from 1 to 90.
MinuteValid == PostedMinute # None /\ PostedMinute \in 1..90

\* The players with a lineup entry for the posted team in the posted match.
PostedLineup ==
    { lu.player : lu \in { l \in lineups :
        l.match = PostedMatch /\ l.team = PostedTeam } }

\* The on-field set of the posted team at the proposed cutoff, computed
\* from the rows stored before the request.
PostedOnField ==
    get_on_field_player_ids(PostedMatch, PostedTeam, PostedMinute, PostedAddedTime)

\* The player a filled-in field names.
Names(text) == text \notin {Absent, ""}
Named(text) == IntOrNone(text)

\* The modes that name one player for one stored row, and the row's type.
PlayerModes == {"goal", "penalty", "own", "yellow", "red"}
TypeOfMode ==
    [goal |-> "goal", penalty |-> "penalty_goal", own |-> "own_goal",
     yellow |-> "yellow", red |-> "red"]

\* The request stored nothing.
NothingStored == events' = events

\* The request stored the row of its named player.
PlayerRowStored ==
    \E e \in events' \ events :
        /\ e.match = PostedMatch /\ e.team = PostedTeam
        /\ e.player = Named(request'.event_player)
        /\ e.event_type = TypeOfMode[request'.event_mode]
        /\ e.minute = PostedMinute /\ e.added_time = PostedAddedTime

\* A goal, penalty, own-goal or card request whose named player is not in
\* the on-field set at the cutoff stores nothing.
RejectedOffField ==
    (/\ request'.event_mode \in PlayerModes
     /\ PostedTeam # None
     /\ Names(request'.event_player)
     /\ Named(request'.event_player) \notin PostedOnField)
        => NothingStored

\* The minute is valid, the named player has a lineup entry for the chosen
\* team and is on the field.
PlayerAcceptable ==
    /\ request'.event_mode \in PlayerModes
    /\ MinuteValid
    /\ PostedTeam # None
    /\ Names(request'.event_player)
    /\ Named(request'.event_player) \in PostedLineup
    /\ Named(request'.event_player) \in PostedOnField

\* C5 as stated: a goal, penalty-goal, own-goal, yellow-card or red-card
\* request is rejected whenever the named player is not in the team's
\* on-field set at the proposed cutoff, and is accepted whenever the minute
\* is valid, the player has a lineup entry for the chosen team and the
\* player is on the field.
C5_AcceptedWheneverOnField ==
    [][AddEventStep =>
          /\ RejectedOffField
          /\ PlayerAcceptable => PlayerRowStored]_vars

\* The posted team plays the match, and an assistant named by a goal request
\* has a lineup entry for the team, is on the field and is not the scorer.
TeamAndAssistantAcceptable ==
    /\ PostedTeam \in {matches[PostedMatch].home_team, matches[PostedMatch].away_team}
    /\ (request'.event_mode = "goal" /\ Names(request'.assist_player)) =>
          /\ Named(request'.assist_player) \in PostedLineup
          /\ Named(request'.assist_player) \in PostedOnField
          /\ Named(request'.assist_player) # Named(request'.event_player)

\* C5, amended: such a request is rejected whenever the named player is not
\* in the team's on-field set at the proposed cutoff, and is accepted
\* whenever the chosen team is the home or the away team of the match, the
\* minute is valid, the player has a lineup entry for that team and is on
\* the field, and, for a goal request that names an assistant, the
\* assistant has a lineup entry for the team, is on the field and is not
\* the scorer.
C5_AcceptedWhenAllNamedValid ==
    [][AddEventStep =>
          /\ RejectedOffField
          /\ (PlayerAcceptable /\ TeamAndAssistantAcceptable) => PlayerRowStored]_vars

\* A yellow card for bench player 3 was accepted: the player had come on by
\* the card's cutoff.
C5_Witness ==
    /\ response = "redirect"
    /\ request.event_mode = "yellow" /\ request.event_player = "3"
    /\ \E e \in events : e.event_type = "yellow" /\ e.player = 3

\* The fields of the answered request that name a player in its mode.
NamedTexts ==
    LET fields ==
            CASE request'.event_mode = "goal" ->
                    {request'.event_player, request'.assist_player}
              [] request'.event_mode \in {"penalty", "own", "yellow", "red"} ->
                    {request'.event_player}
              [] request'.event_mode = "sub" ->
                    {request'.sub_out, request'.sub_in}
              [] OTHER -> {}
    IN  { t \in fields : Names(t) }

\* C6: a request for a team that exists in which some named player has no
\* lineup entry for that team in the match stores nothing, whichever team
\* is specified.
C6_RejectedOutsideLineup ==
    [][(/\ AddEventStep
        /\ PostedTeam # None
        /\ \E t \in NamedTexts : Named(t) \notin PostedLineup)
           => NothingStored]_vars

\* The messages of the lineup rule, one per named field.
LineupMessages ==
    {"scorer_not_in_squad", "assist_not_in_squad", "penalty_not_in_squad",
     "own_not_in_squad", "card_not_in_squad", "sub_out_not_in_squad",
     "sub_in_not_in_squad"}

\* C7: when a request is rejected with its list of violations, the list
\* has every rule the request violates: the minute rule when the minute is
\* not valid, and the lineup rule when a named player of the league has no
\* lineup entry for the specified team.
C7_EveryViolationListed ==
    [][(AddEventStep /\ response' = "render") =>
          /\ ~ MinuteValid => "minute_range" \in Range(errors')
          /\ (/\ PostedTeam # None
              /\ \E t \in NamedTexts :
                    Named(t) \in Players /\ Named(t) \notin PostedLineup)
                => Range(errors') \cap LineupMessages # {}]_vars

\* The rows a substitution of `out` by `in` stores.
SubRowsStored(out, in) ==
    /\ Cardinality(events' \ events) = 2
    /\ \A e \in events' \ events :
          /\ e.event_type = "sub"
          /\ e.match = PostedMatch /\ e.team = PostedTeam
          /\ e.minute = PostedMinute /\ e.added_time = PostedAddedTime
    /\ { e.player : e \in events' \ events } = {out, in}

\* C8: a substitution request stores its two rows only if the outgoing
\* player is in the on-field set at the cutoff, the incoming player is not
\* in it, and the two are different players; if any of the three fails it
\* stores nothing.
C8_SubstitutionChecked ==
    [][(AddEventStep /\ request'.event_mode = "sub") =>
          LET out == Named(request'.sub_out)
              in == Named(request'.sub_in)
              valid == /\ PostedTeam # None
                       /\ Names(request'.sub_out) /\ Names(request'.sub_in)
                       /\ out \in PostedOnField
                       /\ in \notin PostedOnField
                       /\ out # in
          IN  /\ ~ valid => NothingStored
              /\ ~ NothingStored => SubRowsStored(out, in)]_vars

\* Player 3, who came on for player 1, was taken off again for player 1:
\* the second substitution was accepted against the on-field set at its
\* cutoff, not against the starting set.
C8_Witness ==
    /\ response = "redirect"
    /\ request.event_mode = "sub"
    /\ request.sub_out = "3" /\ request.sub_in = "1"
    /\ Cardinality({ e \in events : e.event_type = "sub" /\ e.team = 1 }) = 4

\* C9: a goal request that names an assistant stores its rows only if the
\* assistant is in the team's on-field set at the goal's timestamp and is
\* not the scorer; otherwise neither the goal row nor the assist row is
\* stored.
C9_AssistantChecked ==
    [][(/\ AddEventStep
        /\ request'.event_mode = "goal"
        /\ Names(request'.assist_player)
        /\ ~ (/\ PostedTeam # None
              /\ Named(request'.assist_player) \in PostedOnField
              /\ Named(request'.assist_player) # Named(request'.event_player)))
           => NothingStored]_vars

\* The texts of a whole number from 1 to 90.
ValidMinuteTexts == { t \in DOMAIN Numeral : Numeral[t] >= 1 /\ Numeral[t] <= 90 }

\* C10: every stored event has a minute from 1 to 90, and a request whose
\* minute is missing, not a number, below 1 or above 90 is rejected and
\* stores nothing.
C10_MinuteInRange ==
    [][AddEventStep =>
          /\ \A e \in events' : e.minute >= 1 /\ e.minute <= 90
          /\ request'.event_minute \notin ValidMinuteTexts =>
                /\ NothingStored
                /\ response' = "render"]_vars

\* With an event stored at minute 90, a request at minute 91 was rejected.
C10_Witness ==
    /\ response = "render"
    /\ request.event_minute = "91"
    /\ "minute_range" \in { errors[i] : i \in DOMAIN errors }
    /\ \E e \in events : e.minute = 90

\* The texts of a whole number that is not negative.
NonNegativeTexts == { t \in DOMAIN Numeral : Numeral[t] >= 0 }

\* C11: a request whose stoppage-time field is filled in with anything but
\* a non-negative whole number stores nothing, and no stored event has a
\* negative stoppage time.
C11_StoppageChecked ==
    [][AddEventStep =>
          /\ (/\ Names(request'.event_added_time)
              /\ request'.event_added_time \notin NonNegativeTexts)
                => NothingStored
          /\ \A e \in events' : e.added_time = None \/ e.added_time >= 0]_vars

\* C13: a request that ends validation with a non-empty error list leaves
\* the stored rows as they were: none created, changed or deleted.
C13_RejectedStoresNothing ==
    [][(AddEventStep /\ errors' # <<>>) => events' = events]_vars

\* With rows stored, a substitution of a player by himself was refused: its
\* minute and team were fine, its players were not.
C13_Witness ==
    /\ response = "render"
    /\ request.event_mode = "sub"
    /\ request.sub_out = "1" /\ request.sub_in = "1"
    /\ "sub_same_player" \in { errors[i] : i \in DOMAIN errors }
    /\ events # {}

----------------------------------------------------------------------------
(* Properties of the delete_events handler *)

\* Rows of the same match and team with the same (minute, stoppage time).
SameGroupKey(e1, e2) ==
    /\ e1.match = e2.match /\ e1.team = e2.team
    /\ e1.minute = e2.minute /\ e1.added_time = e2.added_time

\* The types deleted together with a row of type t.
PairedTypes(t) ==
    IF t \in {"goal", "penalty_goal", "assist"}
    THEN {"goal", "penalty_goal", "assist"}
    ELSE IF t = "sub" THEN {"sub"} ELSE {}

\* C14: when a deletion removes a goal, penalty-goal, assist or substitution
\* row, it removes every stored row of the same match and team with the
\* same (minute, stoppage time) whose type is paired with it: goal, penalty
\* goal and assist rows with a goal or assist, substitution rows with a
\* substitution.
C14_CascadeWholeGroup ==
    [][\A d \in events \ events' :
          \A e \in events :
              (SameGroupKey(e, d) /\ e.event_type \in PairedTypes(d.event_type))
                  => e \notin events']_vars

\* C15: every stored assist row has a goal or penalty-goal row of the same
\* team with the same (minute, stoppage time), and for every team and
\* timestamp the number of stored substitution rows is even.
C15_NoOrphanedHalves ==
    \A e \in events :
        /\ e.event_type = "assist" =>
              \E g \in events : g.event_type \in ScoringTypes /\ SameGroupKey(g, e)
        /\ e.event_type = "sub" =>
              Cardinality({ o \in events :
                  o.event_type = "sub" /\ SameGroupKey(o, e) }) % 2 = 0

----------------------------------------------------------------------------
(* Properties of the two-row writes *)

\* A stored row without its id.
Content(e) ==
    [match |-> e.match, team |-> e.team, player |-> e.player,
     event_type |-> e.event_type, minute |-> e.minute,
     added_time |-> e.added_time]

\* The rows with one of the two newest ids that hold the content `row`.
NewestWith(row) ==
    { e \in events : e.id >= next_id - 2 /\ Content(e) = row }

\* C12: the two rows of a goal with its assist, and of a substitution, are
\* written together: in every reachable state, for the accepted request the
\* handler holds, the first row of the unit is among the newest stored rows
\* exactly when the second is.
C12_TwoRowWritesAtomic ==
    (request # NoRequest /\ errors = <<>> /\ response # "render") =>
        LET unit == CreatesOf(request)
        IN  Len(unit) = 2 =>
                (NewestWith(unit[1]) = {} <=> NewestWith(unit[2]) = {})

----------------------------------------------------------------------------
(* Properties of build_team_events *)

\* The number of rows a display entry shows: two for a goal with its assist
\* and for a substitution with its incoming player, one otherwise.
RowsShown(entry) ==
    IF entry.kind = "goal" THEN (IF entry.assist # None THEN 2 ELSE 1)
    ELSE IF entry.kind = "sub" THEN (IF entry.player_in # None THEN 2 ELSE 1)
    ELSE 1

RECURSIVE TotalShown(_, _)
TotalShown(display, i) ==
    IF i > Len(display) THEN 0
    ELSE RowsShown(display[i]) + TotalShown(display, i + 1)

\* C16: build_team_events accounts for every row of a team's events exactly
\* once: the rows its entries show, alone or as a paired half, are as many
\* as the rows of the team.
C16_EveryRowShownOnce ==
    \A m \in MatchIds, t \in Teams :
        TotalShown(build_team_events(m, t).display, 1)
            = Len(team_events_of(m, t))

\* The display has a goal entry at the time of row g with this scorer and
\* this assistant (None: no assistant).
GoalEntryShown(display, g, scorer, assistant) ==
    \E i \in DOMAIN display :
        /\ display[i].kind = "goal"
        /\ display[i].minute = g.minute /\ display[i].added = g.added_time
        /\ display[i].player = scorer
        /\ display[i].assist = assistant

\* C17: a goal row stored together with an assist row by one request (the
\* assist has the next id, the same team and time) is shown as a goal entry
\* of its scorer with that assistant, whatever other goals and assists share
\* the timestamp; a goal row stored without an assist (the row with the next
\* id is stored and is no assist) is shown with no assistant.
C17_GoalShownWithItsAssist ==
    \A g \in events :
        g.event_type = "goal" =>
            LET display == build_team_events(g.match, g.team).display
            IN  \A a \in events :
                    a.id = g.id + 1 =>
                        IF a.event_type = "assist" /\ SameGroupKey(a, g)
                        THEN GoalEntryShown(display, g, g.player, a.player)
                        ELSE GoalEntryShown(display, g, g.player, None)

----------------------------------------------------------------------------
(* Properties of _calculate_standings *)

\* The orders in which the database may yield the three teams.
TeamOrders ==
    { o \in [1..Cardinality(Teams) -> Teams] : \A i, j \in DOMAIN o : i # j => o[i] # o[j] }

\* The finished matches a team won, drew and lost, a match counting once for
\* each side the team has in it.
Sides(team, better) ==
    Cardinality({ m \in DOMAIN matches :
        /\ matches[m].status = "finished"
        /\ matches[m].home_team = team
        /\ better[get_match_score(m)[1], get_match_score(m)[2]] })
    + Cardinality({ m \in DOMAIN matches :
        /\ matches[m].status = "finished"
        /\ matches[m].away_team = team
        /\ better[get_match_score(m)[2], get_match_score(m)[1]] })

Scores == 0..4
Higher == [own \in Scores, other \in Scores |-> own > other]
Level == [own \in Scores, other \in Scores |-> own = other]
Lower == [own \in Scores, other \in Scores |-> own < other]

\* C18: every row of the table has one win and 3 points for each finished
\* match its team scored more in, one loss and no points for each it scored
\* less in, one draw and 1 point for each with equal scores, so that
\* points = 3 * wins + draws.
C18_PointsFromResults ==
    \A teams \in TeamOrders :
        LET table == calculate_standings(teams)
        IN  \A i \in DOMAIN table :
                /\ table[i].wins = Sides(table[i].team, Higher)
                /\ table[i].losses = Sides(table[i].team, Lower)
                /\ table[i].draws = Sides(table[i].team, Level)
                /\ table[i].points = 3 * table[i].wins + table[i].draws

\* Team 1 beat team 2, team 2 drew with team 3: a row with a win and 3
\* points, a row with a loss, a draw and 1 point.
C18_Witness ==
    LET table == calculate_standings(<<1, 2, 3>>)
    IN  /\ \E i \in DOMAIN table :
              table[i].team = 1 /\ table[i].wins = 1 /\ table[i].points = 3
        /\ \E i \in DOMAIN table :
              /\ table[i].team = 2 /\ table[i].losses = 1
              /\ table[i].draws = 1 /\ table[i].points = 1

\* The sum of a field over the rows of a table.
RECURSIVE SumOf(_, _, _)
SumOf(table, field, n) ==
    IF n = 0 THEN 0 ELSE table[n][field] + SumOf(table, field, n - 1)

FinishedWith(equal) ==
    { m \in DOMAIN matches :
        /\ matches[m].status = "finished"
        /\ (get_match_score(m)[1] = get_match_score(m)[2]) = equal }

\* C19: the wins of all rows add up to the number of finished matches with
\* unequal scores, and the draws of all rows add up to twice the number of
\* finished matches with equal scores (an even number).
C19_WinsAndDrawsAddUp ==
    \A teams \in TeamOrders :
        LET table == calculate_standings(teams)
        IN  /\ SumOf(table, "wins", Len(table)) = Cardinality(FinishedWith(FALSE))
            /\ SumOf(table, "draws", Len(table)) = 2 * Cardinality(FinishedWith(TRUE))
            /\ SumOf(table, "draws", Len(table)) % 2 = 0

\* One finished match with unequal scores, one finished match with equal
\* scores and one that is not finished or absent: one win and two draws in
\* the table.
C19_Witness ==
    LET table == calculate_standings(<<1, 2, 3>>)
    IN  /\ Cardinality(FinishedWith(FALSE)) = 1
        /\ Cardinality(FinishedWith(TRUE)) = 1
        /\ SumOf(table, "wins", Len(table)) = 1
        /\ SumOf(table, "draws", Len(table)) = 2

\* (points, goal difference, goals_for) of a row.
Triple(r) == <<r.points, r.goals_for - r.goals_against, r.goals_for>>

\* a >= b lexicographically
LexGE(a, b) ==
    \/ a[1] > b[1]
    \/ a[1] = b[1] /\ a[2] > b[2]
    \/ a[1] = b[1] /\ a[2] = b[2] /\ a[3] >= b[3]

\* The position of a team in the iteration order.
PlaceIn(teams, team) == CHOOSE i \in DOMAIN teams : teams[i] = team

\* C20: of two adjacent rows of the table the earlier one's (points, goal
\* difference, goals_for) is lexicographically greater than or equal to the
\* later one's, and rows equal on all three are in the order in which the
\* teams were iterated.
C20_OrderedAndStable ==
    \A teams \in TeamOrders :
        LET table == calculate_standings(teams)
        IN  /\ Len(table) = Len(teams)
            /\ \A i \in 1..(Len(table) - 1) :
                   LexGE(Triple(table[i]), Triple(table[i + 1]))
            /\ \A i, j \in DOMAIN table :
                   i < j /\ Triple(table[i]) = Triple(table[j])
                       => PlaceIn(teams, table[i].team) < PlaceIn(teams, table[j].team)

\* Teams 1 and 2 drew and are level on all three keys, team 3 has nothing:
\* iterated as 3, 2, 1 the table reads 2, 1, 3.
C20_Witness ==
    LET table == calculate_standings(<<3, 2, 1>>)
    IN  /\ Triple(table[1]) = Triple(table[2])
        /\ Triple(table[2]) # Triple(table[3])
        /\ <<table[1].team, table[2].team, table[3].team>> = <<2, 1, 3>>

\* The teams that are a side of a finished match.
TeamsOfFinished ==
    UNION { {matches[m].home_team, matches[m].away_team} :
                m \in { x \in DOMAIN matches : matches[x].status = "finished" } }

\* C21: the table has exactly one row for each team, and the row of a team
\* that is a side of no finished match has games, wins, draws, losses,
\* goals_for, goals_against and points all 0.
C21_OneRowPerTeam ==
    \A teams \in TeamOrders :
        LET table == calculate_standings(teams)
        IN  /\ \A t \in Teams :
                   Cardinality({ i \in DOMAIN table : table[i].team = t }) = 1
            /\ \A i \in DOMAIN table : table[i].team \in Teams
            /\ \A i \in DOMAIN table :
                   table[i].team \notin TeamsOfFinished
                       => /\ table[i].games = 0 /\ table[i].wins = 0
                          /\ table[i].draws = 0 /\ table[i].losses = 0
                          /\ table[i].goals_for = 0 /\ table[i].goals_against = 0
                          /\ table[i].points = 0

\* Match 1 is finished with a goal in it while team 3 is a side of no
\* finished match although it scored in match 2: the table has three rows,
\* the last one team 3's.
C21_Witness ==
    LET table == calculate_standings(<<3, 2, 1>>)
    IN  /\ TeamsOfFinished = {1, 2}
        /\ \E e \in events : e.match = 2 /\ e.team = 3 /\ e.event_type = "goal"
        /\ \E e \in events : e.match = 1
        /\ Len(table) = 3
        /\ table[3].team = 3 /\ table[3].games = 0

\* The table for the teams iterated as 1, 2, 3, and a team's row in a table.
TableNow == calculate_standings(<<1, 2, 3>>)
RowOf(table, team) == table[CHOOSE i \in DOMAIN table : table[i].team = team]

\* The rows a league with the finished match `m` alone, and with all
\* finished matches but `m`, would have.
ResultAlone(m) == CountMatches(events, [t \in Teams |-> EmptyRow(t)], {m})
ResultWithout(m) ==
    CountMatches(events, [t \in Teams |-> EmptyRow(t)],
                 { x \in DOMAIN matches : matches[x].status = "finished" } \ {m})

Counters ==
    {"games", "wins", "draws", "losses", "goals_for", "goals_against", "points"}

\* A step that adds or deletes rows of one match that is not finished.
EventsStepOf(m) ==
    /\ events' # events
    /\ matches' = matches
    /\ \A e \in (events \ events') \cup (events' \ events) : e.match = m
    /\ matches[m].status # "finished"

\* The rows of the table when match `m` is finished: what the table has
\* without it plus what the match alone gives.
FinishedAdded(m) ==
    \A t \in Teams, c \in Counters :
        RowOf(TableNow, t)[c] = ResultWithout(m)[t][c] + ResultAlone(m)[t][c]

\* C22: a step that adds or deletes events of a match that is scheduled or
\* being played leaves every row of the table as it was, and a finished
\* match adds to the rows the table has without it what the match alone
\* gives, so that making it finished adds exactly its result.
C22_OnlyFinishedCount ==
    /\ [][ \A m \in DOMAIN matches :
              EventsStepOf(m) =>
                  \A t \in Teams :
                      RowOf(StandingsOn(events', <<1, 2, 3>>), t) = RowOf(TableNow, t) ]_vars
    /\ [](\A m \in DOMAIN matches :
              matches[m].status = "finished" => FinishedAdded(m))

\* Match 1 was made finished with a goal in it and match 2 is being played
\* and got a goal: team 1's row shows one game, team 3's none.
C22_Witness ==
    /\ matches[1].status = "finished"
    /\ matches[2].status = "live"
    /\ \E e \in events : e.match = 1 /\ e.event_type = "goal"
    /\ \E e \in events : e.match = 2 /\ e.event_type = "goal"
    /\ RowOf(TableNow, 1).games = 1 /\ RowOf(TableNow, 3).games = 0

----------------------------------------------------------------------------
(* Properties of the rosters *)

\* Within every team no two memberships with a number have the same one.
NumbersUnique ==
    \A a \in team_players, b \in team_players :
        a # b /\ a.team = b.team /\ a.number # None => a.number # b.number

\* The numbers the POST asks for in the squad of `team`: one for every
\* membership that stays and has a numeral, and the new player's when the
\* POST names a player who is in no team.
Asked(team, post) ==
    LET stay == { tp \in team_players : tp.team = team /\ tp.id \notin post.remove_tp }
        new_player == IntOrNone(post.new_player_id)
        joining ==
            /\ new_player \in players
            /\ \A tp \in team_players :
                   tp.player = new_player => tp.team = team /\ tp.id \in post.remove_tp
    IN  { <<tp.id, IntOrNone(post.numbers[tp.id])>> : tp \in stay }
          \cup (IF joining THEN { <<0, IntOrNone(post.new_player_number)>> } ELSE {})

\* The POST would give one number to two memberships of the squad.
WouldDuplicate(team, post) ==
    \E a \in Asked(team, post), b \in Asked(team, post) :
        a[1] # b[1] /\ a[2] # None /\ a[2] = b[2]

\* C23: within every team no two memberships that have a number share it,
\* and a team_squad_edit POST that would give one number to two memberships
\* of the squad is rejected and changes no membership: in every state the
\* handler finds errors in each such POST, and the step that answers with
\* the error page leaves the memberships as they were.
C23_NumbersUniqueInTeam ==
    /\ []NumbersUnique
    /\ [](\A team \in RosterTeams : \A post \in SquadPosts(team) :
              WouldDuplicate(team, post) => SquadErrors(team, post))
    /\ [][ response' = "render" => team_players' = team_players ]_vars

\* A squad edit was just rejected while a team has two memberships with
\* different numbers, one of them added after the first two.
C23_Witness ==
    /\ response = "render"
    /\ \E a \in team_players, b \in team_players :
           /\ a.team = b.team /\ a.id # b.id /\ b.id > 2
           /\ a.number # None /\ b.number # None /\ a.number # b.number

\* C24: every player has at most one membership.
C24_AtMostOneTeam ==
    \A a \in team_players, b \in team_players :
        a.player = b.player => a = b

\* Player 1 has moved from team 1 to team 2 and the created player 3 has
\* joined a squad with a number.
C24_Witness ==
    /\ \E tp \in team_players : tp.player = 1 /\ tp.team = 2
    /\ \E tp \in team_players : tp.player = 3 /\ tp.number # None
    /\ \A tp \in team_players : tp.player = 1 => tp.team = 2

----------------------------------------------------------------------------
(* Properties of substitutions that share a timestamp *)

\* The substitution rows of the team are the pairs the requests stored: in
\* the order of the query the rows at 2k - 1 and 2k have consecutive ids
\* and one timestamp.
StoredInPairs(subs) ==
    /\ Len(subs) % 2 = 0
    /\ \A k \in 1..Len(subs) :
           k % 2 = 1 => /\ subs[k + 1].id = subs[k].id + 1
                        /\ subs[k].minute = subs[k + 1].minute
                        /\ subs[k].added_time = subs[k + 1].added_time

\* One pair applied to the on-field set: of its two players those on the
\* field leave and those off the field enter.
PairApplied(on_field, a, b) ==
    (on_field \ {a.player, b.player}) \cup ({a.player, b.player} \ on_field)

\* The pairs before the cutoff applied one after another, in the order of
\* the query (timestamp, then id).
RECURSIVE OneAfterAnother(_, _, _, _, _)
OneAfterAnother(subs, i, on_field, minute, added_time) ==
    IF i > Len(subs) THEN on_field
    ELSE IF ReachedTarget(subs[i], minute, added_time) THEN on_field
    ELSE OneAfterAnother(subs, i + 2, PairApplied(on_field, subs[i], subs[i + 1]),
                         minute, added_time)

\* C25: when the substitution rows of a team are stored pairs, the on-field
\* set at every cutoff is what applying the pairs one after another gives,
\* each pair classified against the set the previous pair left, also when
\* several pairs have one timestamp.
C25_TiedPairsOneAfterAnother ==
    \A m \in DOMAIN matches, team \in Teams, c \in Cutoffs :
        StoredInPairs(SubsOf(m, team))
            => get_on_field_player_ids(m, team, c[1], c[2])
                 = OneAfterAnother(SubsOf(m, team), 1, Starting(m, team), c[1], c[2])

\* A substitution entry of the display with one side only.
OneSided(d) == d.kind = "sub" /\ (d.player_in = None \/ d.player_out = None)

\* C26: a substitution entry build_team_events makes for a row without a
\* partner has exactly one side: the outgoing one, with the player in
\* sub_out_ids, when the player is on the field at the row's timestamp,
\* and the incoming one, with the player in sub_in_ids, when the player is
\* not.
C26_SingletonSideByOnField ==
    \A m \in DOMAIN matches, team \in Teams :
        LET built == build_team_events(m, team)
        IN  \A k \in DOMAIN built.display :
                LET d == built.display[k]
                    p == IF d.player_out # None THEN d.player_out ELSE d.player_in
                IN  OneSided(d) =>
                        /\ p # None
                        /\ IF p \in get_on_field_player_ids(m, team, d.minute, d.added)
                           THEN /\ d.player_out = p /\ d.player_in = None
                                /\ p \in built.sub_out_ids
                           ELSE /\ d.player_in = p /\ d.player_out = None
                                /\ p \in built.sub_in_ids

----------------------------------------------------------------------------
(* Properties of the event log after additions and deletions *)

\* C27: for every team and every cutoff the on-field set has as many
\* players as the team has starters in the match, and each of them has a
\* lineup entry for the team in the match.
C27_OnFieldSizeAndSquad ==
    \A m \in DOMAIN matches, team \in Teams, c \in Cutoffs :
        LET on_field == get_on_field_player_ids(m, team, c[1], c[2])
        IN  /\ Cardinality(on_field) = Cardinality(Starting(m, team))
            /\ on_field \subseteq SquadIds(m, team)

\* The stored rows that name the player who did something on the field.
OnFieldTypes == {"goal", "penalty_goal", "own_goal", "assist", "yellow", "red"}

\* C28: every stored goal, penalty goal, own goal, assist and card names a
\* player who is in the on-field set of the row's team computed from the
\* current log at the row's timestamp.
C28_StoredPlayersOnField ==
    \A e \in events :
        e.event_type \in OnFieldTypes
            => e.player \in get_on_field_player_ids(e.match, e.team, e.minute, e.added_time)

----------------------------------------------------------------------------
(* Properties of the team an event is stored for *)

\* C29: a request that names a team other than the home team and the away
\* team of its match stores nothing, and while the match has the teams it
\* started with the two scores add up to the number of its goal, penalty
\* goal and own-goal rows.
C29_OnlyTeamsOfTheMatch ==
    [][ AddEventStep /\ request' # NoRequest =>
          /\ PostedTeam \notin { matches[PostedMatch].home_team,
                                 matches[PostedMatch].away_team } => NothingStored
          /\ (matches'[PostedMatch].home_team = 1 /\ matches'[PostedMatch].away_team = 2)
                => LET score == ScoreOn(events', PostedMatch)
                   IN  score[1] + score[2] =
                         Cardinality({ e \in events' :
                             /\ e.match = PostedMatch
                             /\ e.event_type \in {"goal", "penalty_goal", "own_goal"} })
      ]_vars

----------------------------------------------------------------------------
(* Properties of delete_events *)

\* Row e may go when `ids` is selected in match m: it is a selected row of
\* the match, or a goal, penalty goal, assist or substitution of the match
\* with the team and the timestamp of a selected row of the match.
MayGo(e, m, ids) ==
    /\ e.match = m
    /\ \/ e.id \in ids
       \/ /\ e.event_type \notin {"own_goal", "yellow", "red"}
          /\ \E s \in events :
                /\ s.match = m /\ s.id \in ids
                /\ s.team = e.team
                /\ s.minute = e.minute /\ s.added_time = e.added_time

\* C30: a delete request for a match deletes no row of another match, no
\* unselected row of a team or a timestamp that no selected row of the
\* match has, and no unselected own goal or card; with nothing selected, or
\* only ids of rows of other matches, it deletes nothing.
C30_DeletesOnlyTheCascade ==
    [][ \A m \in DOMAIN matches, ids \in SUBSET (1..MaxEventId) :
          delete_events(m, ids) =>
              /\ events' \subseteq events
              /\ \A e \in events \ events' : MayGo(e, m, ids)
              /\ (\A e \in events : e.id \in ids => e.match # m) => events' = events
      ]_vars

\* Rows were deleted, and what is left has a card or an own goal of team 1
\* at minute 1 in match 1 and a row of match 2.
C30_Witness ==
    /\ next_id > Cardinality(events) + 1
    /\ response = "none"
    /\ \E e \in events :
           e.match = 1 /\ e.minute = 1 /\ e.event_type \in {"own_goal", "yellow"}
    /\ \E e \in events : e.match = 2

============================================================================
